---- MODULE Spec2Model ----
(***************************************************************************)
(* claude-conductor: the file-based task queue between the orchestrator    *)
(* (bin/orchestrator.js) and the worker wrapper (bin/worker.sh).           *)
(*                                                                         *)
(* Every step of the model is one file-system operation of one process     *)
(* (a write, a delete, a mkdir, or a run of reads that precedes it), so    *)
(* that the orchestrator and the workers, which are separate OS processes, *)
(* interleave at that grain.                                               *)
(***************************************************************************)
EXTENDS Integers, Sequences, FiniteSets, TLC

(* ------------------------------ bounds -------------------------------- *)
MaxWorkers == 2      \* largest numWorkers given to the Orchestrator
MaxTasks == 2        \* longest task list given to executeTasks/executeSequential
MaxRestarts == 1     \* worker processes started after the first ones
MaxEvents == 1       \* fswatch events kept in the pipe (saturating)
MaxLaunch == 6       \* largest --workers given to launch.sh

(* ------------------------- program constants -------------------------- *)
RetryBudget == 5     \* local retries=5
FirstWait == 1       \* local wait=1

Slots == 0 .. (MaxWorkers - 1)
Procs == 1 .. (MaxWorkers + MaxRestarts)
WatchModes == {"inotify", "fswatch", "poll"}

VARIABLES
  \* the slot directory ~/.claude-code/orchestrator/workers/<id>
  task,        \* task.json   : [id, prompt]; id = 0 when the file is absent
  status,      \* status.json : [state, taskId]; taskId = 0 when the field is absent
  result,      \* result.json : [present, taskId, success, error]
  lock,        \* .lock       : [state, pid]
  \* worker.sh processes, named by their PID
  wslot,       \* WORKER_ID of the process
  pc,          \* where the process is in worker.sh
  retries,     \* acquire_lock: local retries
  wait,        \* acquire_lock: local wait
  task_id,     \* process_task: local task_id
  prompt,      \* process_task: local prompt (0 = empty string)
  success,     \* process_task: local success
  errors,      \* process_task: local errors ("" or "diag")
  ev,          \* fswatch events on task.json waiting in the pipe
  fsOn,        \* the fswatch child of the process is running
  watchMode,   \* which of inotifywait / fswatch is installed
  restarts,    \* worker processes started after the first ones
  relNoop,     \* history: some release_lock ran on a slot that had no marker
  \* the Orchestrator
  numWorkers,  \* this.numWorkers
  call,        \* "par" = executeTasks, "seq" = executeSequential
  tasks,       \* the argument of the call
  spc,         \* where the orchestrator is
  taskQueue,   \* executeTasks: taskQueue (indices into tasks)
  activeKeys,  \* executeTasks: activeWorkers.keys(), in insertion order
  activeInfo,  \* executeTasks: activeWorkers.get(w)
  pollKeys,    \* executeTasks: what is left of the for-of over activeWorkers.keys()
  results,     \* results
  workerId,    \* const workerId
  seqI,        \* executeSequential: i
  nextId,      \* lib/queue.js: the next id writeTask hands out
  shutIdx,     \* shutdown: position in this.workers
  \* launch.sh
  launch       \* [lpc, n, worktrees, session, panes, k, keys]: the run of the launcher

fileVars == <<task, status, result, lock>>
procVars == <<wslot, pc, retries, wait, task_id, prompt, success, errors, ev, fsOn,
              watchMode, restarts, relNoop>>
schedVars == <<numWorkers, call, tasks, spc, taskQueue, activeKeys, activeInfo,
               pollKeys, results, workerId, seqI, nextId, shutIdx>>
vars == <<fileVars, procVars, schedVars, launch>>

(* ------------------------------ records ------------------------------- *)
NoTask == [id |-> 0, prompt |-> 0]
\* launch.sh has not been run
NoLaunch == [lpc |-> "none", n |-> 0, worktrees |-> FALSE, session |-> FALSE,
             panes |-> 0, k |-> 0, keys |-> <<>>]
IdleStatus == [state |-> "idle", taskId |-> 0]
\* jq --arg taskId makes Result.taskId a JSON string; Status.taskId and Task.id
\* are JSON numbers.  StrOf(n) is the string of the digits of n.
StrOf(n) == [str |-> n]
NoResult == [present |-> FALSE, taskId |-> StrOf(0), success |-> FALSE, error |-> "null"]
NoLock == [state |-> "none", pid |-> 0]

Min2(a, b) == IF a < b THEN a ELSE b

ActiveSlots == 0 .. (numWorkers - 1)

\* kill -0 "$old_pid": the process exists
Alive(q) == q \in Procs /\ pc[q] \notin {"unstarted", "dead", "exited"}

\* the processes between a successful acquire_lock and their release_lock
Holding == {"rdtask", "rdprompt", "inv_rm", "wr_working", "exec", "wr_result",
            "wr_status", "rm_task", "release"}

(* --------------------- change notification sources --------------------- *)
\* inotifywait -e create,modify "$QUEUE_DIR": a create or modify in slot s by
\* somebody else ends the wait of every process blocked in inotifywait on s.
Wake(f, s, self) ==
  [q \in Procs |-> IF q # self /\ wslot[q] = s /\ f[q] = "waiting"
                   THEN "check" ELSE f[q]]

\* fswatch -0 "$QUEUE_DIR": an event whose path holds task.json is queued in
\* the pipe of every running fswatch on s.
FsEvent(e, s) ==
  [q \in Procs |-> IF wslot[q] = s /\ fsOn[q] THEN Min2(e[q] + 1, MaxEvents) ELSE e[q]]

(* ------------------------------ worker.sh ------------------------------ *)
\* where the main loop goes on after process_task returned 0
AfterTask(p) ==
  CASE watchMode = "inotify" -> "prewait"
    [] watchMode = "poll"    -> "check"
    [] OTHER                 -> IF fsOn[p] THEN "fswait" ELSE "fsstart"

\* line 26: echo '{"status":"idle",...}' > "$STATUS_FILE"
WorkerInit(p) ==
  /\ pc[p] = "boot"
  /\ status' = [status EXCEPT ![wslot[p]] = IdleStatus]
  /\ pc' = Wake([pc EXCEPT ![p] = "check"], wslot[p], p)
  /\ UNCHANGED <<task, result, lock, wslot, retries, wait, task_id, prompt, success,
                 errors, ev, fsOn, watchMode, restarts, relNoop, schedVars, launch>>

\* if [ -f "$TASK_FILE" ]; then process_task "$TASK_FILE"; fi
\* (polling: the check is repeated every second, so it is a step only when
\* the file is there)
CheckTask(p) ==
  /\ pc[p] = "check"
  /\ IF task[wslot[p]].id # 0
       THEN /\ pc' = [pc EXCEPT ![p] = "acq"]
            /\ retries' = [retries EXCEPT ![p] = RetryBudget]
            /\ wait' = [wait EXCEPT ![p] = FirstWait]
       ELSE /\ watchMode # "poll"
            /\ pc' = [pc EXCEPT ![p] = IF watchMode = "inotify" THEN "prewait" ELSE "fsstart"]
            /\ UNCHANGED <<retries, wait>>
  /\ UNCHANGED <<fileVars, wslot, task_id, prompt, success, errors, ev, fsOn,
                 watchMode, restarts, relNoop, schedVars, launch>>

\* inotifywait sets up its watch: what was written before this is not seen
BeginWait(p) ==
  /\ pc[p] = "prewait"
  /\ pc' = [pc EXCEPT ![p] = "waiting"]
  /\ UNCHANGED <<fileVars, wslot, retries, wait, task_id, prompt, success, errors, ev,
                 fsOn, watchMode, restarts, relNoop, schedVars, launch>>

\* fswatch -0 "$QUEUE_DIR" | while read ...: the fswatch child starts
FsStart(p) ==
  /\ pc[p] = "fsstart"
  /\ pc' = [pc EXCEPT ![p] = "fswait"]
  /\ fsOn' = [fsOn EXCEPT ![p] = TRUE]
  /\ UNCHANGED <<fileVars, wslot, retries, wait, task_id, prompt, success, errors, ev,
                 watchMode, restarts, relNoop, schedVars, launch>>

\* read -d "" event; [[ "$event" == *"task.json"* ]]; process_task
FsRead(p) ==
  /\ pc[p] = "fswait"
  /\ ev[p] > 0
  /\ ev' = [ev EXCEPT ![p] = @ - 1]
  /\ pc' = [pc EXCEPT ![p] = "acq"]
  /\ retries' = [retries EXCEPT ![p] = RetryBudget]
  /\ wait' = [wait EXCEPT ![p] = FirstWait]
  /\ UNCHANGED <<fileVars, wslot, task_id, prompt, success, errors, fsOn, watchMode,
                 restarts, relNoop, schedVars, launch>>

\* the PID file of the marker names a process that kill -0 does not find
\* (an empty file gives kill -0 "", which fails as well)
StalePid(l) ==
  \/ l.state = "open"
  \/ l.state = "pid" /\ ~Alive(l.pid)

\* one turn of the while loop of acquire_lock: mkdir, or the stale check, or
\* the sleep
AcqTry(p) ==
  LET s == wslot[p] IN
  /\ pc[p] \in {"acq", "acq_again"}
  /\ IF lock[s].state = "none"
       THEN /\ lock' = [lock EXCEPT ![s] = [state |-> "dir", pid |-> 0]]
            /\ pc' = Wake([pc EXCEPT ![p] = "mkpid_open"], s, p)
            /\ UNCHANGED <<retries, wait>>
       ELSE IF StalePid(lock[s])
         THEN /\ pc' = [pc EXCEPT ![p] = "rmstale"]
              /\ UNCHANGED <<lock, retries, wait>>
         ELSE /\ retries' = [retries EXCEPT ![p] = @ - 1]
              /\ wait' = [wait EXCEPT ![p] = @ * 2]
              /\ pc' = [pc EXCEPT ![p] = IF retries[p] - 1 > 0 THEN "acq" ELSE "acqfail"]
              /\ UNCHANGED lock
  /\ UNCHANGED <<task, status, result, wslot, task_id, prompt, success, errors, ev, fsOn,
                 watchMode, restarts, relNoop, schedVars, launch>>

\* RemoveStale without its continue: the loop goes on to sleep and retries-1
RemoveStaleNoContinue(p) ==
  /\ pc[p] = "rmstale"
  /\ lock' = [lock EXCEPT ![wslot[p]] = NoLock]
  /\ retries' = [retries EXCEPT ![p] = @ - 1]
  /\ wait' = [wait EXCEPT ![p] = @ * 2]
  /\ pc' = [pc EXCEPT ![p] = IF retries[p] - 1 > 0 THEN "acq_again" ELSE "acqfail"]
  /\ UNCHANGED <<task, status, result, wslot, task_id, prompt, success,
                 errors, ev, fsOn, watchMode, restarts, relNoop, schedVars, launch>>

\* rm -rf "$LOCK_FILE"; continue ("acq_again" is the head of the while loop
\* reached by this continue)
RemoveStale(p) ==
  /\ pc[p] = "rmstale"
  /\ lock' = [lock EXCEPT ![wslot[p]] = NoLock]
  /\ pc' = [pc EXCEPT ![p] = "acq_again"]
  /\ UNCHANGED <<task, status, result, wslot, retries, wait, task_id, prompt, success,
                 errors, ev, fsOn, watchMode, restarts, relNoop, schedVars, launch>>

\* echo "$$" > "$LOCK_FILE/pid", the open (create, truncate): nothing is
\* written when the directory is gone by now
PidOpen(p) ==
  LET s == wslot[p] IN
  /\ pc[p] = "mkpid_open"
  /\ lock' = [lock EXCEPT ![s] = IF @.state = "none" THEN @
                                 ELSE [state |-> "open", pid |-> p]]
  /\ pc' = Wake([pc EXCEPT ![p] = "mkpid_write"], s, p)
  /\ UNCHANGED <<task, status, result, wslot, retries, wait, task_id, prompt, success,
                 errors, ev, fsOn, watchMode, restarts, relNoop, schedVars, launch>>

\* echo "$$" > "$LOCK_FILE/pid", the write; return 0
PidWrite(p) ==
  LET s == wslot[p] IN
  /\ pc[p] = "mkpid_write"
  /\ lock' = [lock EXCEPT ![s] = IF @ = [state |-> "open", pid |-> p]
                                 THEN [state |-> "pid", pid |-> p] ELSE @]
  /\ pc' = Wake([pc EXCEPT ![p] = "rdtask"], s, p)
  /\ retries' = [retries EXCEPT ![p] = 0]
  /\ wait' = [wait EXCEPT ![p] = 0]
  /\ UNCHANGED <<task, status, result, wslot, task_id, prompt, success, errors, ev, fsOn,
                 watchMode, restarts, relNoop, schedVars, launch>>

\* release_lock written with rmdir: it fails on a marker that is absent or
\* holds a PID file
release_rmdir(l) ==
  [lock |-> IF l.state = "dir" THEN NoLock ELSE l, rc |-> IF l.state = "dir" THEN 0 ELSE 1]

\* rm -rf "$LOCK_FILE": the marker after it, and the exit status of rm
release_lock(l) == [lock |-> NoLock, rc |-> 0]

\* acquire_lock returned 1: process_task returns 1, set -e ends the script and
\* the EXIT trap runs cleanup, which calls release_lock
LockFailExit(p) ==
  /\ pc[p] = "acqfail"
  /\ lock' = [lock EXCEPT ![wslot[p]] = release_lock(@).lock]
  /\ pc' = [pc EXCEPT ![p] = "exited"]
  /\ retries' = [retries EXCEPT ![p] = 0]
  /\ wait' = [wait EXCEPT ![p] = 0]
  /\ fsOn' = [fsOn EXCEPT ![p] = FALSE]
  /\ ev' = [ev EXCEPT ![p] = 0]
  /\ relNoop' = (relNoop \/ lock[wslot[p]] = NoLock)
  /\ UNCHANGED <<task, status, result, wslot, task_id, prompt, success, errors, watchMode,
                 restarts, schedVars, launch>>

\* [ ! -f "$task_file" ] and task_id=$(jq -r '.id // empty' "$task_file")
ReadTask(p) ==
  LET s == wslot[p] IN
  /\ pc[p] = "rdtask"
  /\ IF task[s].id = 0
       THEN /\ pc' = [pc EXCEPT ![p] = "release"]
            /\ UNCHANGED task_id
       ELSE /\ pc' = [pc EXCEPT ![p] = "rdprompt"]
            /\ task_id' = [task_id EXCEPT ![p] = task[s].id]
  /\ UNCHANGED <<fileVars, wslot, retries, wait, prompt, success, errors, ev, fsOn,
                 watchMode, restarts, relNoop, schedVars, launch>>

\* prompt=$(jq -r '.prompt // empty' "$task_file"); [ -z "$prompt" ]
ReadPrompt(p) ==
  LET s == wslot[p] IN
  /\ pc[p] = "rdprompt"
  /\ prompt' = [prompt EXCEPT ![p] = task[s].prompt]
  /\ pc' = [pc EXCEPT ![p] = IF task[s].prompt = 0 THEN "inv_rm" ELSE "wr_working"]
  /\ UNCHANGED <<fileVars, wslot, retries, wait, task_id, success, errors, ev, fsOn,
                 watchMode, restarts, relNoop, schedVars, launch>>

\* echo '{"status":"working","taskId":$task_id,...}' > "$STATUS_FILE"
WriteWorking(p) ==
  LET s == wslot[p] IN
  /\ pc[p] = "wr_working"
  /\ status' = [status EXCEPT ![s] = [state |-> "working", taskId |-> task_id[p]]]
  /\ pc' = Wake([pc EXCEPT ![p] = "exec"], s, p)
  /\ UNCHANGED <<task, result, lock, wslot, retries, wait, task_id, prompt, success,
                 errors, ev, fsOn, watchMode, restarts, relNoop, schedVars, launch>>

\* what one run of claude-code can give: its exit status and its stderr
AgentOutcomes == {<<TRUE, "">>, <<FALSE, "diag">>, <<FALSE, "">>}

\* claude-code run as a plain command, outside the if: under set -e a
\* non-zero exit ends the script, and the EXIT trap releases the marker
RunAgentUnguarded(p) ==
  /\ pc[p] = "exec"
  /\ \E o \in AgentOutcomes :
       /\ success' = [success EXCEPT ![p] = o[1]]
       /\ errors' = [errors EXCEPT ![p] = o[2]]
       /\ pc' = [pc EXCEPT ![p] = IF o[1] THEN "wr_result" ELSE "exited"]
       /\ lock' = IF o[1] THEN lock ELSE [lock EXCEPT ![wslot[p]] = NoLock]
  /\ UNCHANGED <<task, status, result, wslot, retries, wait, task_id, prompt, ev, fsOn,
                 watchMode, restarts, relNoop, schedVars, launch>>

\* if echo "$prompt" | claude-code 2>"$error_file" 1>"$output_file"; then
\* success=true; else success=false; fi
RunAgent(p) ==
  /\ pc[p] = "exec"
  /\ \E o \in AgentOutcomes :
       /\ success' = [success EXCEPT ![p] = o[1]]
       /\ errors' = [errors EXCEPT ![p] = o[2]]
  /\ pc' = [pc EXCEPT ![p] = "wr_result"]
  /\ UNCHANGED <<fileVars, wslot, retries, wait, task_id, prompt, ev, fsOn, watchMode,
                 restarts, relNoop, schedVars, launch>>

\* jq -n --arg taskId ... > "$RESULT_FILE"
WriteResult(p) ==
  LET s == wslot[p] IN
  /\ pc[p] = "wr_result"
  /\ result' = [result EXCEPT ![s] =
                  [present |-> TRUE, taskId |-> StrOf(task_id[p]), success |-> success[p],
                   error |-> IF errors[p] # "" THEN errors[p] ELSE "null"]]
  /\ pc' = Wake([pc EXCEPT ![p] = "wr_status"], s, p)
  /\ UNCHANGED <<task, status, lock, wslot, retries, wait, task_id, prompt, success,
                 errors, ev, fsOn, watchMode, restarts, relNoop, schedVars, launch>>

\* echo '{"status":"done"|"error","taskId":$task_id,...}' > "$STATUS_FILE"
WriteFinal(p) ==
  LET s == wslot[p] IN
  /\ pc[p] = "wr_status"
  /\ status' = [status EXCEPT ![s] =
                  [state |-> IF success[p] THEN "done" ELSE "error", taskId |-> task_id[p]]]
  /\ pc' = Wake([pc EXCEPT ![p] = "rm_task"], s, p)
  /\ UNCHANGED <<task, result, lock, wslot, retries, wait, task_id, prompt, success,
                 errors, ev, fsOn, watchMode, restarts, relNoop, schedVars, launch>>

\* rm -f "$task_file" (line 94 for an invalid task, line 147 after a run)
RemoveTask(p) ==
  LET s == wslot[p] IN
  /\ pc[p] \in {"rm_task", "inv_rm"}
  /\ task' = [task EXCEPT ![s] = NoTask]
  /\ ev' = IF task[s].id # 0 THEN FsEvent(ev, s) ELSE ev
  /\ pc' = [pc EXCEPT ![p] = "release"]
  /\ UNCHANGED <<status, result, lock, wslot, retries, wait, task_id, prompt, success,
                 errors, fsOn, watchMode, restarts, relNoop, schedVars, launch>>

\* release_lock, and back to the main loop (set -e ends the script when
\* release_lock fails)
Release(p) ==
  LET s == wslot[p] IN
  /\ pc[p] = "release"
  /\ lock' = [lock EXCEPT ![s] = release_lock(@).lock]
  /\ pc' = [pc EXCEPT ![p] = IF release_lock(lock[s]).rc = 0 THEN AfterTask(p) ELSE "exited"]
  /\ task_id' = [task_id EXCEPT ![p] = 0]
  /\ prompt' = [prompt EXCEPT ![p] = 0]
  /\ success' = [success EXCEPT ![p] = FALSE]
  /\ errors' = [errors EXCEPT ![p] = ""]
  /\ relNoop' = (relNoop \/ lock[s] = NoLock)
  /\ UNCHANGED <<task, status, result, wslot, retries, wait, ev, fsOn, watchMode,
                 restarts, schedVars, launch>>

\* a command of process_task fails while the marker is held: the write of
\* status.json (102, 139, 142), mktemp or cd "$WORKTREE_PATH" (105-110), the
\* write of result.json (124-135).  The command leaves nothing behind, set -e
\* ends the script and the EXIT trap runs cleanup, which calls release_lock
WorkFault(p) ==
  /\ pc[p] \in {"wr_working", "exec", "wr_result", "wr_status"}
  /\ lock' = [lock EXCEPT ![wslot[p]] = release_lock(@).lock]
  /\ pc' = [pc EXCEPT ![p] = "exited"]
  /\ task_id' = [task_id EXCEPT ![p] = 0]
  /\ prompt' = [prompt EXCEPT ![p] = 0]
  /\ success' = [success EXCEPT ![p] = FALSE]
  /\ errors' = [errors EXCEPT ![p] = ""]
  /\ fsOn' = [fsOn EXCEPT ![p] = FALSE]
  /\ ev' = [ev EXCEPT ![p] = 0]
  /\ relNoop' = (relNoop \/ lock[wslot[p]] = NoLock)
  /\ UNCHANGED <<task, status, result, wslot, retries, wait, watchMode, restarts, schedVars, launch>>

\* status.json and result.json between the open of `> file`, which truncates
\* the file, and the write of its content: the file is there and is empty
EmptyStatus == [state |-> "empty", taskId |-> 0]
EmptyResult == [present |-> TRUE, taskId |-> StrOf(0), success |-> FALSE, error |-> "empty"]

\* echo ... > "$STATUS_FILE" (26, 102, 139, 142), the open: the shell
\* truncates status.json before echo writes the new content
TruncStatus(p) ==
  LET s == wslot[p] IN
  /\ pc[p] \in {"boot", "wr_working", "wr_status"}
  /\ status[s] # EmptyStatus
  /\ status' = [status EXCEPT ![s] = EmptyStatus]
  /\ pc' = Wake(pc, s, p)
  /\ UNCHANGED <<task, result, lock, wslot, retries, wait, task_id, prompt, success,
                 errors, ev, fsOn, watchMode, restarts, relNoop, schedVars, launch>>

\* jq -n ... > "$RESULT_FILE" (124-135), the open: the shell truncates
\* result.json before jq starts
TruncResult(p) ==
  LET s == wslot[p] IN
  /\ pc[p] = "wr_result"
  /\ result[s] # EmptyResult
  /\ result' = [result EXCEPT ![s] = EmptyResult]
  /\ pc' = Wake(pc, s, p)
  /\ UNCHANGED <<task, status, lock, wslot, retries, wait, task_id, prompt, success,
                 errors, ev, fsOn, watchMode, restarts, relNoop, schedVars, launch>>

\* trap cleanup EXIT INT TERM: a TERM or INT sent to the script while it is in
\* process_task.  bash runs cleanup, which calls release_lock and returns, when
\* the command in progress has ended, and the script goes on where it was
\* (cleanup does not exit).  Under fswatch process_task runs in the subshell of
\* the pipeline, which does not inherit the trap.
TermSignal(p) ==
  /\ watchMode # "fswatch"
  /\ pc[p] \in Holding
  /\ lock[wslot[p]] # NoLock
  /\ lock' = [lock EXCEPT ![wslot[p]] = release_lock(@).lock]
  /\ UNCHANGED <<task, status, result, procVars, schedVars, launch>>

\* the process is killed (SIGKILL, power loss): no trap runs
Crash(p) ==
  /\ Alive(p)
  /\ restarts < MaxRestarts
  /\ pc' = [pc EXCEPT ![p] = "dead"]
  /\ retries' = [retries EXCEPT ![p] = 0]
  /\ wait' = [wait EXCEPT ![p] = 0]
  /\ task_id' = [task_id EXCEPT ![p] = 0]
  /\ prompt' = [prompt EXCEPT ![p] = 0]
  /\ success' = [success EXCEPT ![p] = FALSE]
  /\ errors' = [errors EXCEPT ![p] = ""]
  /\ ev' = [ev EXCEPT ![p] = 0]
  /\ fsOn' = [fsOn EXCEPT ![p] = FALSE]
  /\ UNCHANGED <<fileVars, wslot, watchMode, restarts, relNoop, schedVars, launch>>

\* worker.sh <s> is started again for a slot whose process is gone
Restart(s) ==
  /\ s \in ActiveSlots
  /\ restarts < MaxRestarts
  /\ \A q \in Procs : wslot[q] = s => ~Alive(q)
  /\ \E p \in Procs :
       /\ pc[p] = "unstarted"
       /\ \A q \in Procs : pc[q] = "unstarted" => p <= q
       /\ pc' = [pc EXCEPT ![p] = "boot"]
       /\ wslot' = [wslot EXCEPT ![p] = s]
  /\ restarts' = restarts + 1
  /\ UNCHANGED <<fileVars, retries, wait, task_id, prompt, success, errors, ev, fsOn,
                 watchMode, relNoop, schedVars, launch>>

\* process_task and what it calls
TaskStep(p) ==
  \/ AcqTry(p) \/ RemoveStale(p) \/ PidOpen(p) \/ PidWrite(p) \/ LockFailExit(p)
  \/ ReadTask(p) \/ ReadPrompt(p) \/ WriteWorking(p) \/ RunAgent(p) \/ WriteResult(p)
  \/ WriteFinal(p) \/ RemoveTask(p) \/ Release(p)

WorkerStep(p) ==
  \/ WorkerInit(p) \/ CheckTask(p) \/ BeginWait(p) \/ FsStart(p) \/ FsRead(p)
  \/ TaskStep(p)

(* --------------------------- orchestrator.js --------------------------- *)
Null == 0 - 1

(* lib/queue.js, the slot store the orchestrator imports *)
\* readStatus(workerId): the content of status.json
readStatus(w) == status[w]

\* readResult(workerId): the content of result.json, nothing when it is absent
readResult(w) == result[w]

\* clearResult(workerId): result.json is removed
clearResult(rs, w) == [rs EXCEPT ![w] = NoResult]

\* writeTask(workerId, {prompt, context}): task.json is replaced by a task
\* with a fresh id, which is returned
writeTask(ts, w, id, pr) == [ts EXCEPT ![w] = [id |-> id, prompt |-> pr]]

\* an id read off a millisecond clock that has not advanced since the last call
sameMillisecondId(n) == n

\* writeTask: the id that follows the one handed out by the call before
nextTaskId(n) == n + 1

\* writeStatus(workerId, 'idle')
writeStatusIdle(st, w) == [st EXCEPT ![w] = IdleStatus]

\* status.status === 'idle' || status.status === 'done'
Eligible(w) == readStatus(w).state \in {"idle", "done"}

\* the constructor: this.workers.push(i) for i = 0 .. numWorkers-1
workers == [i \in 1 .. numWorkers |-> i - 1]

\* findIdleWorker without the early return: the last eligible worker
RECURSIVE scanWorkersLast(_)
scanWorkersLast(i) ==
  IF i > Len(workers) THEN Null
  ELSE IF scanWorkersLast(i + 1) # Null THEN scanWorkersLast(i + 1)
  ELSE IF Eligible(workers[i]) THEN workers[i]
  ELSE Null

\* findIdleWorker: for (const workerId of this.workers), return the first one
\* whose status is idle or done, null after the last
RECURSIVE scanWorkers(_)
scanWorkers(i) ==
  IF i > Len(workers) THEN Null
  ELSE IF Eligible(workers[i]) THEN workers[i]
  ELSE scanWorkers(i + 1)

findIdleWorker == scanWorkers(1)

\* waitForStatus given 'working' among its target states
SeenWorking(w) == readStatus(w).state \in {"working", "done", "error"}

\* status.status === 'done' || status.status === 'error'
Terminal(w) == readStatus(w).state \in {"done", "error"}

\* the outcome pushed on results
Outcome(w, id, t) ==
  [workerId |-> w, taskId |-> id, task |-> t, result |-> readResult(w),
   status |-> readStatus(w).state]

RemoveKey(ks, w) == SelectSeq(ks, LAMBDA k : k # w)
HasKey(ks, w) == \E i \in 1 .. Len(ks) : ks[i] = w

\* the test of the outer while of executeTasks, and what follows it
ParLoop(q, ks) ==
  IF q = <<>> /\ ks = <<>> THEN "returned"
  ELSE IF q # <<>> THEN "assign" ELSE "poll"

\* the for-of over activeWorkers.keys() goes on with rest; at its end, the
\* 500 ms sleep and the next turn of the outer while
PollNext(rest, q, ks) ==
  IF rest # <<>> THEN [spc |-> "poll", keys |-> rest]
  ELSE [spc |-> ParLoop(q, ks), keys |-> IF ParLoop(q, ks) = "poll" THEN ks ELSE <<>>]

\* executeTasks, the inner while: findIdleWorker, break or taskQueue.shift()
ParFind ==
  /\ call = "par" /\ spc = "assign"
  /\ IF findIdleWorker = Null
       THEN /\ activeKeys # <<>>
            /\ spc' = "poll"
            /\ pollKeys' = activeKeys
            /\ UNCHANGED <<workerId, taskQueue>>
       ELSE /\ workerId' = findIdleWorker
            /\ taskQueue' = Tail(taskQueue)
            /\ spc' = "clear"
            /\ UNCHANGED pollKeys
  /\ UNCHANGED <<fileVars, procVars, numWorkers, launch, call, tasks, activeKeys, activeInfo,
                 results, seqI, nextId, shutIdx>>

\* the task being assigned: the one shifted off taskQueue, or tasks[i]
CurTask == IF call = "par" THEN Len(tasks) - Len(taskQueue) ELSE seqI

\* assignTask: clearResult(workerId)
ClearResult ==
  /\ spc = "clear"
  /\ result' = clearResult(result, workerId)
  /\ spc' = "write"
  /\ UNCHANGED <<task, status, lock, procVars, numWorkers, launch, call, tasks, taskQueue,
                 activeKeys, activeInfo, pollKeys, results, workerId, seqI, nextId, shutIdx>>

\* assignTask: writeTask(workerId, {prompt, context}); in executeTasks,
\* activeWorkers.set(workerId, {taskId, originalTask}) follows
WriteTask ==
  LET w == workerId
      ks == IF HasKey(activeKeys, w) THEN activeKeys ELSE Append(activeKeys, w) IN
  /\ spc = "write"
  /\ task' = writeTask(task, w, nextId, tasks[CurTask].prompt)
  /\ nextId' = nextTaskId(nextId)
  /\ pc' = Wake(pc, w, 0)
  /\ ev' = FsEvent(ev, w)
  /\ IF call = "par"
       THEN /\ activeKeys' = ks
            /\ activeInfo' = [activeInfo EXCEPT ![w] = [taskId |-> nextId, task |-> CurTask]]
            /\ spc' = IF taskQueue # <<>> THEN "assign" ELSE "poll"
            /\ pollKeys' = IF taskQueue # <<>> THEN <<>> ELSE ks
       ELSE /\ activeInfo' = [activeInfo EXCEPT ![w] = [taskId |-> nextId, task |-> CurTask]]
            /\ spc' = "seq_wait"
            /\ UNCHANGED <<activeKeys, pollKeys>>
  /\ UNCHANGED <<status, result, lock, wslot, retries, wait, task_id, prompt, success,
                 errors, fsOn, watchMode, restarts, relNoop, numWorkers, launch, call, tasks, taskQueue,
                 results, workerId, seqI, shutIdx>>

\* executeTasks, the for-of: readStatus, and for done or error getResult and
\* results.push
ParPoll ==
  LET w == Head(pollKeys)
      nx == PollNext(Tail(pollKeys), taskQueue, activeKeys) IN
  /\ call = "par" /\ spc = "poll"
  /\ IF Terminal(w)
       THEN /\ results' = Append(results, Outcome(w, activeInfo[w].taskId, activeInfo[w].task))
            /\ workerId' = w
            /\ spc' = "reset"
            /\ UNCHANGED pollKeys
       ELSE /\ spc' = nx.spc
            /\ pollKeys' = nx.keys
            /\ UNCHANGED <<results, workerId>>
  /\ UNCHANGED <<fileVars, procVars, numWorkers, launch, call, tasks, taskQueue, activeKeys,
                 activeInfo, seqI, nextId, shutIdx>>

\* executeTasks: writeStatus(workerId, 'idle'); activeWorkers.delete(workerId)
ParReset ==
  LET w == workerId
      ks == RemoveKey(activeKeys, w)
      nx == PollNext(Tail(pollKeys), taskQueue, ks) IN
  /\ call = "par" /\ spc = "reset"
  /\ status' = writeStatusIdle(status, w)
  /\ pc' = Wake(pc, w, 0)
  /\ activeKeys' = ks
  /\ spc' = nx.spc
  /\ pollKeys' = nx.keys
  /\ UNCHANGED <<task, result, lock, wslot, retries, wait, task_id, prompt, success,
                 errors, ev, fsOn, watchMode, restarts, relNoop, numWorkers, launch, call, tasks, taskQueue,
                 activeInfo, results, workerId, seqI, nextId, shutIdx>>

\* executeSequential: waitForAvailableWorker found a worker
SeqFind ==
  /\ call = "seq" /\ spc = "seq_find"
  /\ findIdleWorker # Null
  /\ workerId' = findIdleWorker
  /\ spc' = "clear"
  /\ UNCHANGED <<fileVars, procVars, numWorkers, launch, call, tasks, taskQueue, activeKeys,
                 activeInfo, pollKeys, results, seqI, nextId, shutIdx>>

\* waitForAvailableWorker: throw new Error('Timeout waiting for available worker')
SeqFindTimeout ==
  /\ call = "seq" /\ spc = "seq_find"
  /\ findIdleWorker = Null
  /\ spc' = "threw"
  /\ UNCHANGED <<fileVars, procVars, numWorkers, launch, call, tasks, taskQueue, activeKeys,
                 activeInfo, pollKeys, results, workerId, seqI, nextId, shutIdx>>

\* executeSequential: waitForCompletion saw done or error; getResult,
\* readStatus and results.push
SeqCollect ==
  /\ call = "seq" /\ spc = "seq_wait"
  /\ Terminal(workerId)
  /\ results' = Append(results, Outcome(workerId, activeInfo[workerId].taskId, seqI))
  /\ spc' = "seq_reset"
  /\ UNCHANGED <<fileVars, procVars, numWorkers, launch, call, tasks, taskQueue, activeKeys,
                 activeInfo, pollKeys, workerId, seqI, nextId, shutIdx>>

\* lib/queue.js waitForStatus: the timeout
SeqWaitTimeout ==
  /\ call = "seq" /\ spc = "seq_wait"
  /\ ~Terminal(workerId)
  /\ spc' = "threw"
  /\ UNCHANGED <<fileVars, procVars, numWorkers, launch, call, tasks, taskQueue, activeKeys,
                 activeInfo, pollKeys, results, workerId, seqI, nextId, shutIdx>>

\* the stopOnError test without its first operand: any failure stops
StopOnAnyFailure(t, r) == ~r.success

\* the stopOnError test with the negation lost
StopHereInverted(t, r) == t.stopOnError /\ r.success

\* if (task.stopOnError && !result.success) break
StopHere(t, r) == t.stopOnError /\ ~r.success

\* executeSequential: writeStatus(workerId, 'idle'), the stopOnError test
\* (result.success of an empty result is a TypeError) and i++
SeqReset ==
  LET r == results[Len(results)].result IN
  /\ call = "seq" /\ spc = "seq_reset"
  /\ status' = writeStatusIdle(status, workerId)
  /\ pc' = Wake(pc, workerId, 0)
  /\ IF ~r.present
       THEN spc' = "threw" /\ UNCHANGED seqI
       ELSE IF StopHere(tasks[seqI], r) \/ seqI = Len(tasks)
         THEN spc' = "returned" /\ UNCHANGED seqI
         ELSE spc' = "seq_find" /\ seqI' = seqI + 1
  /\ UNCHANGED <<task, result, lock, wslot, retries, wait, task_id, prompt, success,
                 errors, ev, fsOn, watchMode, restarts, relNoop, numWorkers, launch, call, tasks, taskQueue,
                 activeKeys, activeInfo, pollKeys, results, workerId, nextId, shutIdx>>

\* shutdown that also clears the slot's marker
ShutdownUnlocks ==
  /\ spc = "returned"
  /\ status' = writeStatusIdle(status, shutIdx)
  /\ lock' = [lock EXCEPT ![shutIdx] = NoLock]
  /\ pc' = Wake(pc, shutIdx, 0)
  /\ shutIdx' = shutIdx + 1
  /\ spc' = IF shutIdx + 1 = numWorkers THEN "shut" ELSE "returned"
  /\ UNCHANGED <<task, result, wslot, retries, wait, task_id, prompt, success,
                 errors, ev, fsOn, watchMode, restarts, relNoop, numWorkers, launch, call, tasks, taskQueue,
                 activeKeys, activeInfo, pollKeys, results, workerId, seqI, nextId>>

\* shutdown that also empties the slot: task.json is removed with the status
ShutdownClearsTask ==
  /\ spc = "returned"
  /\ status' = writeStatusIdle(status, shutIdx)
  /\ task' = [task EXCEPT ![shutIdx] = NoTask]
  /\ pc' = Wake(pc, shutIdx, 0)
  /\ shutIdx' = shutIdx + 1
  /\ spc' = IF shutIdx + 1 = numWorkers THEN "shut" ELSE "returned"
  /\ UNCHANGED <<result, lock, wslot, retries, wait, task_id, prompt, success,
                 errors, ev, fsOn, watchMode, restarts, relNoop, numWorkers, launch, call, tasks, taskQueue,
                 activeKeys, activeInfo, pollKeys, results, workerId, seqI, nextId>>

\* shutdown, one turn of the for-of over this.workers
Shutdown ==
  /\ spc = "returned"
  /\ status' = writeStatusIdle(status, shutIdx)
  /\ pc' = Wake(pc, shutIdx, 0)
  /\ shutIdx' = shutIdx + 1
  /\ spc' = IF shutIdx + 1 = numWorkers THEN "shut" ELSE "returned"
  /\ UNCHANGED <<task, result, lock, wslot, retries, wait, task_id, prompt, success,
                 errors, ev, fsOn, watchMode, restarts, relNoop, numWorkers, launch, call, tasks, taskQueue,
                 activeKeys, activeInfo, pollKeys, results, workerId, seqI, nextId>>

(* ------------------------------ the system ----------------------------- *)
\* the task lists a caller can pass: every task has its stopOnError flag and
\* a prompt, which may be the empty string
TaskLists(stops) ==
  UNION {[1 .. n -> stops \X BOOLEAN] : n \in 1 .. MaxTasks}

\* f[i] = <<stopOnError, the prompt is not empty>>; prompt 0 is the empty string
ToTasks(f) ==
  [i \in DOMAIN f |-> [prompt |-> IF f[i][2] THEN i ELSE 0, stopOnError |-> f[i][1]]]

\* no process has anything in its locals, no call has begun
InitLocals ==
  /\ retries = [p \in Procs |-> 0]
  /\ wait = [p \in Procs |-> 0]
  /\ task_id = [p \in Procs |-> 0]
  /\ prompt = [p \in Procs |-> 0]
  /\ success = [p \in Procs |-> FALSE]
  /\ errors = [p \in Procs |-> ""]
  /\ ev = [p \in Procs |-> 0]
  /\ fsOn = [p \in Procs |-> FALSE]
  /\ relNoop = FALSE
  /\ activeKeys = <<>>
  /\ activeInfo = [s \in Slots |-> [taskId |-> 0, task |-> 0]]
  /\ pollKeys = <<>>
  /\ results = <<>>
  /\ workerId = 0
  /\ shutIdx = 0

\* the slot directories after new Orchestrator(numWorkers) (createWorker
\* leaves status idle), and one worker.sh per slot about to start
InitSystem ==
  /\ InitLocals
  /\ launch = NoLaunch
  /\ numWorkers \in 1 .. MaxWorkers
  /\ watchMode \in WatchModes
  /\ task = [s \in Slots |-> NoTask]
  /\ status = [s \in Slots |-> IdleStatus]
  /\ result = [s \in Slots |-> NoResult]
  /\ lock = [s \in Slots |-> NoLock]
  /\ wslot = [p \in Procs |-> IF p <= numWorkers THEN p - 1 ELSE 0]
  /\ pc = [p \in Procs |-> IF p <= numWorkers THEN "boot" ELSE "unstarted"]
  /\ restarts = 0
  /\ nextId = 1

\* executeTasks(tasks)
Init ==
  /\ InitSystem
  /\ call = "par"
  /\ tasks \in {ToTasks(f) : f \in TaskLists({FALSE})}
  /\ taskQueue = [i \in 1 .. Len(tasks) |-> i]
  /\ spc = "assign"
  /\ seqI = 0

\* executeSequential(tasks)
InitSeq ==
  /\ InitSystem
  /\ call = "seq"
  /\ tasks \in {ToTasks(f) : f \in TaskLists(BOOLEAN)}
  /\ taskQueue = <<>>
  /\ spc = "seq_find"
  /\ seqI = 1

\* The lock under contention: worker.sh 0 was started twice (processes 1 and
\* 2, polling) on a slot that holds a task; the marker is absent, or left by
\* process 3, which was killed after its mkdir or after writing its PID.  The
\* orchestrator takes no step.
InitLock ==
  /\ InitLocals
  /\ launch = NoLaunch
  /\ numWorkers = 1
  /\ watchMode = "poll"
  /\ task = [s \in Slots |-> IF s = 0 THEN [id |-> 1, prompt |-> 1] ELSE NoTask]
  /\ status = [s \in Slots |-> IdleStatus]
  /\ result = [s \in Slots |-> NoResult]
  /\ lock \in {[s \in Slots |-> IF s = 0 THEN l ELSE NoLock] :
                 l \in {NoLock, [state |-> "dir", pid |-> 0], [state |-> "pid", pid |-> 3]}}
  /\ wslot = [p \in Procs |-> 0]
  /\ pc = [p \in Procs |-> IF p <= 2 THEN "boot" ELSE "dead"]
  /\ restarts = MaxRestarts
  /\ nextId = 2
  /\ call = "par"
  /\ tasks = ToTasks([i \in 1 .. 1 |-> <<FALSE, TRUE>>])
  /\ taskQueue = <<>>
  /\ spc = "shut"
  /\ seqI = 0

Workers ==
  \/ \E p \in Procs : WorkerStep(p)
  \/ \E p \in Procs : Crash(p)
  \/ \E s \in Slots : Restart(s)

Next ==
  \/ Workers
  \/ ParFind \/ ClearResult \/ WriteTask \/ ParPoll \/ ParReset \/ Shutdown

NextSeq ==
  \/ Workers
  \/ SeqFind \/ SeqFindTimeout \/ ClearResult \/ WriteTask \/ SeqCollect
  \/ SeqWaitTimeout \/ SeqReset \/ Shutdown

Spec == Init /\ [][Next]_vars

SpecSeq == InitSeq /\ [][NextSeq]_vars

\* executeTasks with workers whose own commands can fail
NextFault ==
  \/ Next
  \/ \E p \in Procs : WorkFault(p)

SpecFault == Init /\ [][NextFault]_vars

\* executeTasks with the writes of the workers at the grain of the file
\* system: the truncating open is a step of its own
NextWrite ==
  \/ Next
  \/ \E p \in Procs : TruncStatus(p) \/ TruncResult(p)

\* executeTasks(tasks) on an Orchestrator with one worker
InitWrite == Init /\ numWorkers = 1

SpecWrite == InitWrite /\ [][NextWrite]_vars

\* executeTasks with workers that can be sent TERM or INT (pkill -f worker.sh)
NextSignal ==
  \/ Next
  \/ \E p \in Procs : TermSignal(p)

SpecSignal == InitWrite /\ [][NextSignal]_vars

\* the steps of a worker that keeps running: no kill, no signal, no failing
\* command
\* (with one process per slot and none killed, acquire_lock meets no marker:
\* its stale branch and its timeout are not steps of these workers)
LiveStep(p) ==
  \/ WorkerInit(p) \/ CheckTask(p) \/ BeginWait(p) \/ FsStart(p) \/ FsRead(p)
  \/ AcqTry(p) \/ PidOpen(p) \/ PidWrite(p)
  \/ ReadTask(p) \/ ReadPrompt(p) \/ WriteWorking(p) \/ RunAgent(p) \/ WriteResult(p)
  \/ WriteFinal(p) \/ RemoveTask(p) \/ Release(p)

NextLive ==
  \/ \E p \in Procs : LiveStep(p)
  \/ ParFind \/ ClearResult \/ WriteTask \/ ParPoll \/ ParReset \/ Shutdown

\* every worker.sh process that can run a command gets to run it (the run of
\* the agent ends), and the event loop of the orchestrator goes on
FairLive ==
  /\ \A p \in Procs : WF_vars(LiveStep(p))
  /\ WF_vars(ParFind \/ ClearResult \/ WriteTask \/ ParPoll \/ ParReset \/ Shutdown)

SpecLive == Init /\ [][NextLive]_vars /\ FairLive

NextLock ==
  \E p \in Procs : WorkerInit(p) \/ CheckTask(p) \/ TaskStep(p)

SpecLock == InitLock /\ [][NextLock]_vars

\* worker.sh 0 started twice on a slot that has no marker: nobody was killed
InitTwice ==
  /\ InitLocals
  /\ launch = NoLaunch
  /\ numWorkers = 1
  /\ watchMode = "poll"
  /\ task = [s \in Slots |-> IF s = 0 THEN [id |-> 1, prompt |-> 1] ELSE NoTask]
  /\ status = [s \in Slots |-> IdleStatus]
  /\ result = [s \in Slots |-> NoResult]
  /\ lock = [s \in Slots |-> NoLock]
  /\ wslot = [p \in Procs |-> 0]
  /\ pc = [p \in Procs |-> IF p <= 2 THEN "boot" ELSE "unstarted"]
  /\ restarts = MaxRestarts
  /\ nextId = 2
  /\ call = "par"
  /\ tasks = ToTasks([i \in 1 .. 1 |-> <<FALSE, TRUE>>])
  /\ taskQueue = <<>>
  /\ spc = "shut"
  /\ seqI = 0

SpecTwice == InitTwice /\ [][NextLock]_vars

(* ------------------------------ launch.sh ------------------------------ *)
\* a target of tmux: the window ("$SESSION_NAME:0", its active pane) or the
\* pane with an index ("$SESSION_NAME:0.<pane>")
Window == [win |-> TRUE, pane |-> 0]
Pane(i) == [win |-> FALSE, pane |-> i]

\* tmux finds the target: the window is there, a pane when its index is below
\* the number of panes (pane-base-index 0)
PaneExists(t, panes) == t.win \/ t.pane < panes

\* case $NUM_WORKERS in ... esac: the targets of the split-window commands,
\* in order
SplitTargets(n) ==
  CASE n = 1 -> <<Window>>
    [] n = 2 -> <<Window, Window>>
    [] n = 3 -> <<Window, Pane(1), Pane(2)>>
    [] n = 4 -> <<Window, Pane(0), Pane(2)>>
    [] OTHER -> <<Window>> \o [i \in 1 .. n - 1 |-> Pane(i)]

\* the branches that end with tmux select-layout
HasLayout(n) == n = 2 \/ n > 4

\* one tmux send-keys
Key(p, c, a) == [pane |-> p, cmd |-> c, arg |-> a]

\* get_worker_dir: the worktree of the worker, or $PWD (0)
get_worker_dir(l, i) == IF l.worktrees THEN i + 1 ELSE 0

\* the exit status of the builtin local: it fails outside a function
local_rc(inFunction) == IF inFunction THEN 0 ELSE 1

\* lines 195-205 under set -e, from worker i on: each turn of the for loop
\* runs local (twice) and three send-keys to pane i + 1; the first command that
\* fails ends the script.  After the loop the orchestrator is started in
\* pane 0.
RECURSIVE StartFrom(_, _)
StartFrom(l, i) ==
  IF i = l.n
    THEN [l EXCEPT !.lpc = "started",
                   !.keys = Append(@, Key(0, "orchestrator", l.n))]
    ELSE IF local_rc(FALSE) # 0 \/ ~PaneExists(Pane(i + 1), l.panes)
      THEN [l EXCEPT !.lpc = "exited"]
      ELSE StartFrom([l EXCEPT !.keys = @ \o <<Key(i + 1, "cd", get_worker_dir(l, i)),
                                                Key(i + 1, "echo", i),
                                                Key(i + 1, "worker", i)>>],
                     i + 1)

\* tmux has-session -t "$SESSION_NAME": exit 1 when the session is there
CheckSession ==
  /\ launch.lpc = "check"
  /\ launch' = [launch EXCEPT !.lpc = IF launch.session THEN "exited"
                                      ELSE IF launch.worktrees THEN "worktrees" ELSE "new"]
  /\ UNCHANGED <<fileVars, procVars, schedVars>>

\* setup_worktrees: exit 1 outside a git repository or when a worktree cannot
\* be made
SetupWorktrees ==
  /\ launch.lpc = "worktrees"
  /\ \E ok \in BOOLEAN :
       launch' = [launch EXCEPT !.lpc = IF ok THEN "new" ELSE "exited"]
  /\ UNCHANGED <<fileVars, procVars, schedVars>>

\* tmux new-session -d -s "$SESSION_NAME" -n "orchestrator"
NewSession ==
  /\ launch.lpc = "new"
  /\ launch' = [launch EXCEPT !.lpc = "setup", !.panes = 1]
  /\ UNCHANGED <<fileVars, procVars, schedVars>>

\* the four send-keys to pane 0 of lines 152-155, one at a time
SetupKey ==
  LET cmds == <<"cd", "echo", "echo", "sleep">> IN
  /\ launch.lpc = "setup"
  /\ launch' = [launch EXCEPT
                  !.keys = Append(@, Key(0, cmds[launch.k + 1], 0)),
                  !.k = IF launch.k + 1 = Len(cmds) THEN 0 ELSE launch.k + 1,
                  !.lpc = IF launch.k + 1 = Len(cmds) THEN "split" ELSE "setup"]
  /\ UNCHANGED <<fileVars, procVars, schedVars>>

\* one tmux split-window of the case: a new pane, or the end of the script
\* when the target pane is not there
SplitWindow ==
  LET ts == SplitTargets(launch.n)
      t == ts[launch.k + 1]
      last == launch.k + 1 = Len(ts) IN
  /\ launch.lpc = "split"
  /\ launch' = IF ~PaneExists(t, launch.panes)
                 THEN [launch EXCEPT !.lpc = "exited"]
                 ELSE [launch EXCEPT
                         !.panes = @ + 1,
                         !.k = IF last THEN 0 ELSE launch.k + 1,
                         !.lpc = IF ~last THEN "split"
                                 ELSE IF HasLayout(launch.n) THEN "layout" ELSE "start"]
  /\ UNCHANGED <<fileVars, procVars, schedVars>>

\* tmux select-layout -t "$SESSION_NAME:0" even-horizontal | tiled
SelectLayout ==
  /\ launch.lpc = "layout"
  /\ launch' = [launch EXCEPT !.lpc = "start"]
  /\ UNCHANGED <<fileVars, procVars, schedVars>>

\* "Start workers in their panes" and "Start orchestrator last"
StartAll ==
  /\ launch.lpc = "start"
  /\ launch' = StartFrom(launch, 0)
  /\ UNCHANGED <<fileVars, procVars, schedVars>>

\* launch.sh --workers n [--worktrees], with or without a session of that
\* name; no worker and no orchestrator runs yet
InitLaunch ==
  /\ InitLocals
  /\ numWorkers = 1
  /\ watchMode = "poll"
  /\ task = [s \in Slots |-> NoTask]
  /\ status = [s \in Slots |-> IdleStatus]
  /\ result = [s \in Slots |-> NoResult]
  /\ lock = [s \in Slots |-> NoLock]
  /\ wslot = [p \in Procs |-> 0]
  /\ pc = [p \in Procs |-> "unstarted"]
  /\ restarts = 0
  /\ nextId = 1
  /\ call = "par"
  /\ tasks = <<>>
  /\ taskQueue = <<>>
  /\ spc = "shut"
  /\ seqI = 0
  /\ launch \in {[NoLaunch EXCEPT !.lpc = "check", !.n = n, !.worktrees = w, !.session = e] :
                   n \in 1 .. MaxLaunch, w \in BOOLEAN, e \in BOOLEAN}

NextLaunch ==
  \/ CheckSession \/ SetupWorktrees \/ NewSession \/ SetupKey
  \/ SplitWindow \/ SelectLayout \/ StartAll

SpecLaunch == InitLaunch /\ [][NextLaunch]_vars

(* ------------------------------ the claims ----------------------------- *)

\* C1: lease mutual exclusion.  On every slot at most one live process is
\* between a successful acquire_lock and its release_lock.
MutualExclusion ==
  \A s \in Slots : Cardinality({p \in Procs : wslot[p] = s /\ pc[p] \in Holding}) <= 1

\* C2: when executeTasks(tasks) has returned, results has one entry for each
\* task.
DispatchComplete ==
  (call = "par" /\ spc \in {"returned", "shut"}) => Len(results) = Len(tasks)

\* the i-th outcome belongs to a stopOnError task and is unsuccessful
StopOutcome(i) ==
  /\ tasks[results[i].task].stopOnError
  /\ results[i].result.present
  /\ ~results[i].result.success

\* C3: sequential stop-on-error.  Once an unsuccessful outcome of a
\* stopOnError task is recorded, it is the last outcome, the call is at its
\* reset or has returned, and no later task was written into any slot (as
\* many tasks were written as there are outcomes).
SeqStopOnError ==
  call = "seq" =>
    \A i \in 1 .. Len(results) :
      StopOutcome(i) =>
        /\ i = Len(results)
        /\ results[i].task = i
        /\ seqI = i
        /\ spc \in {"seq_reset", "returned", "shut"}
        /\ nextId - 1 = i

SeqStopped ==
  /\ call = "seq" /\ spc = "returned"
  /\ Len(tasks) = 2 /\ Len(results) = 1
  /\ StopOutcome(1)

\* C4: a slot whose status is idle holds no task.json and no result.json.
IdleSlotInvariant ==
  \A s \in ActiveSlots :
    status[s].state = "idle" => (task[s].id = 0 /\ ~result[s].present)

\* C5: stale-lease reclamation.  An acquire_lock that found a dead PID in
\* the marker removes the marker without sleeping and without spending a
\* retry, and its next attempt, the one that follows at once, creates the
\* marker, again with the retry budget untouched.
StaleReclaimed ==
  [][\A p \in Procs :
       /\ (pc[p] = "rmstale" /\ pc'[p] \notin {"rmstale", "dead"}) =>
            /\ pc'[p] = "acq_again"
            /\ lock'[wslot[p]] = NoLock
            /\ retries'[p] = retries[p] /\ wait'[p] = wait[p]
       /\ (pc[p] = "acq_again" /\ pc'[p] \notin {"acq_again", "dead"}) =>
            /\ pc'[p] = "mkpid_open"
            /\ lock'[wslot[p]] = [state |-> "dir", pid |-> 0]
            /\ retries'[p] = retries[p] /\ wait'[p] = wait[p]]_vars

StaleRemoved ==
  \E p \in Procs :
    /\ pc[p] = "acq_again"
    /\ retries[p] = RetryBudget
    /\ lock[wslot[p]] = NoLock
    /\ \E q \in Procs : pc[q] = "dead" /\ wslot[q] = wslot[p]

\* C6: crash recovery.  The orchestrator never records two outcomes that
\* carry the Result of one and the same task.
OneOutcomePerTask ==
  \A i, j \in 1 .. Len(results) :
    (i < j /\ results[i].result.present /\ results[j].result.present)
      => results[i].result.taskId # results[j].result.taskId

\* C7: release is idempotent.  A release_lock on a slot without a marker
\* ends without error and changes no record of the slot, and a second
\* release_lock leaves what the first one left.
ReleaseIdempotent ==
  [][\A p \in Procs :
       (pc[p] \in {"release", "acqfail"} /\ pc'[p] # pc[p] /\ lock[wslot[p]] = NoLock) =>
         /\ release_lock(lock[wslot[p]]).rc = 0
         /\ pc'[p] = (IF pc[p] = "release" THEN AfterTask(p) ELSE "exited")
         /\ lock' = lock /\ task' = task /\ status' = status /\ result' = result
         /\ release_lock(release_lock(lock'[wslot[p]]).lock) = release_lock(lock'[wslot[p]])
    ]_vars

ReleasedWithoutLease == relNoop

\* C8: deterministic tie-break.  The slot findIdleWorker hands to assignTask
\* is eligible (idle or done) and no eligible slot has a lower id.
LowestEligibleChosen ==
  [][(spc \in {"assign", "seq_find"} /\ spc' = "clear") =>
       /\ Eligible(workerId')
       /\ \A v \in ActiveSlots : Eligible(v) => workerId' <= v]_vars

TieBroken ==
  /\ spc = "clear" /\ numWorkers = 2 /\ workerId = 0
  /\ Eligible(0) /\ Eligible(1)

\* the order idle -> working -> (done | error) -> idle
StatusFollows(a, b) ==
  CASE b.state = "working" -> a.state = "idle"
    [] b.state \in {"done", "error"} -> a.state = "working" /\ a.taskId = b.taskId
    [] OTHER -> a.state \in {"done", "error"}

\* C9: per-slot status ordering.  Every change of a slot's status, the idle
\* written by a starting worker apart, follows idle -> working ->
\* (done | error) -> idle, done and error for the task that was working.
StatusOrder ==
  [][\A s \in Slots :
       (status'[s] # status[s]
          /\ ~\E p \in Procs : wslot[p] = s /\ pc[p] = "boot" /\ pc'[p] # "boot")
       => StatusFollows(status[s], status'[s])]_vars

\* the worker is in its idle wait
IdleWait == {"check", "prewait", "waiting", "fsstart", "fswait"}

\* C10: no race on the reset.  When the orchestrator has seen done or error
\* and is about to write idle, the slot's worker has deleted task.json,
\* released the marker and is back in its idle wait.
NoRaceOnReset ==
  spc \in {"reset", "seq_reset"} =>
    /\ task[workerId].id = 0
    /\ lock[workerId] = NoLock
    /\ \A p \in Procs : (wslot[p] = workerId /\ Alive(p)) => pc[p] \in IdleWait

\* the call has ended: executeTasks or executeSequential returned, or threw
CallEnded == spc \in {"returned", "shut", "threw"}

\* C11: dispatch timeout.  executeTasks never hangs: as long as the call has
\* not returned or thrown, some step that changes the state can be taken (at
\* the latest the timeout, which ends the call with an error).
DispatchNeverHangs ==
  (call = "par" /\ ~CallEnded) => ENABLED <<Next>>_vars

\* C12: lock timeout.  A worker whose acquire_lock has used up its retries
\* goes back to its idle wait, still running, and leaves task.json,
\* status.json, result.json and the holder's marker as they are.
LockTimeoutKeepsWorker ==
  [][\A p \in Procs :
       (pc[p] = "acqfail" /\ pc'[p] # "acqfail") =>
         /\ pc'[p] \in IdleWait
         /\ lock' = lock /\ task' = task /\ status' = status /\ result' = result]_vars

\* C13: a task's failure does not end the worker.  No step of process_task
\* taken with the marker held (reading the task, discarding a task without
\* prompt, the run of the agent whatever its exit status, writing result and
\* status, deleting the task, releasing) ends the script: the process stays
\* in process_task or is back in its main loop, where it waits for the next
\* task.  (A kill of the process is not a step of the script.)
WorkerSurvivesFailure ==
  [][\A p \in Procs :
       (pc[p] \in Holding /\ pc'[p] \notin {pc[p], "dead"}) =>
         /\ pc'[p] \in Holding \cup IdleWait
         /\ pc[p] = "release" => pc'[p] = AfterTask(p)]_vars

\* a worker that was never replaced has failed task 1 and now runs task 2
NextTaskAfterFailure ==
  \E p \in Procs :
    /\ restarts = 0 /\ pc[p] = "exec" /\ task_id[p] = 2
    /\ \E i \in 1 .. Len(results) :
         /\ results[i].workerId = wslot[p]
         /\ results[i].status = "error"
         /\ results[i].result.present
         /\ results[i].result.taskId = StrOf(1)
         /\ ~results[i].result.success

\* C14: failed-result shape.  The result.json written after a run whose exit
\* status says failure has success false and an error that is neither null
\* nor the empty string, whatever the run wrote on its stderr.
FailedResultShape ==
  [][\A p \in Procs :
       (pc[p] = "wr_result" /\ pc'[p] = "wr_status" /\ ~success[p]) =>
         /\ result'[wslot[p]].present
         /\ ~result'[wslot[p]].success
         /\ result'[wslot[p]].error \notin {"null", ""}]_vars

\* C15: malformed task.  When process_task is done with a task that has no
\* prompt (it read an id, found the prompt empty and did not run the agent),
\* the slot records a terminal status and a result for that task, which the
\* orchestrator waiting on the assignment can observe.
MalformedRecorded ==
  [][\A p \in Procs :
       (pc[p] = "release" /\ pc'[p] \notin {"release", "dead"}
          /\ task_id[p] # 0 /\ prompt[p] = 0) =>
         /\ status'[wslot[p]].state \in {"done", "error"}
         /\ status'[wslot[p]].taskId = task_id[p]
         /\ result'[wslot[p]].present
         /\ result'[wslot[p]].taskId = StrOf(task_id[p])]_vars

\* the steps of process_task between the status working and the final status,
\* and where each goes when its command succeeds
WorkSteps == {"wr_working", "exec", "wr_result", "wr_status"}

WorkSucc(l) ==
  CASE l = "wr_working" -> "exec"
    [] l = "exec" -> "wr_result"
    [] l = "wr_result" -> "wr_status"
    [] OTHER -> "rm_task"

\* C16: fault while working.  When a step of process_task fails with the
\* marker held, the marker is released and the worker is back in its idle
\* wait: it does not keep the marker and does not stop running.
FaultReleasesAndRestarts ==
  [][\A p \in Procs :
       (pc[p] \in WorkSteps /\ pc'[p] \notin {pc[p], "dead", WorkSucc(pc[p])}) =>
         /\ lock'[wslot[p]] = NoLock
         /\ pc'[p] \in IdleWait]_vars

\* C17: notification and polling are equivalent.  As under polling, where a
\* task in the slot is found at the next check, a worker that watches for
\* changes is never blocked in inotifywait, or in the read from fswatch with
\* no event queued, while its slot holds a task: a task written at any moment
\* is processed.
NotifyLikePolling ==
  \A p \in Procs :
    (Alive(p) /\ task[wslot[p]].id # 0) =>
      /\ pc[p] # "waiting"
      /\ pc[p] = "fswait" => ev[p] > 0

\* the next step of the orchestrator reads status.json of slot s: the poll of
\* executeTasks, the scan of findIdleWorker up to the first eligible slot,
\* waitForStatus
ReadsStatus(s) ==
  \/ call = "par" /\ spc = "poll" /\ pollKeys # <<>> /\ Head(pollKeys) = s
  \/ spc \in {"assign", "seq_find"} /\ \A v \in ActiveSlots : v < s => ~Eligible(v)
  \/ spc = "seq_wait" /\ workerId = s

\* C18: atomic record writes.  Whenever the orchestrator reads a slot, the
\* status.json it reads, and the result.json it reads with a done or error
\* status, is a complete record, the old one or the new one, never a file
\* that a worker has opened for writing and not yet filled.
ReaderSeesWhole ==
  \A s \in ActiveSlots :
    ReadsStatus(s) =>
      /\ status[s] # EmptyStatus
      /\ Terminal(s) => result[s] # EmptyResult

\* C19: the orchestrator never touches the marker.  Every step of the
\* orchestrator (findIdleWorker, assignTask, the poll and the collection, the
\* reset, waitForAvailableWorker, waitForCompletion, shutdown) leaves .lock of
\* every slot as it is.
SchedulerLeavesLease ==
  [][schedVars' # schedVars => lock' = lock]_vars

\* shutdown has run while a live worker holds the marker of a slot
ShutdownBesideLease ==
  /\ spc = "shut"
  /\ \E s \in ActiveSlots : lock[s].state = "pid" /\ Alive(lock[s].pid)

\* C20: ownership of the idle write.  A status becomes idle either by a step
\* of the orchestrator, and then it was done or error (never working), or by
\* a worker, and then by the write at its startup.
IdleWriteOwnership ==
  [][\A s \in Slots :
       (status'[s].state = "idle" /\ status'[s] # status[s]) =>
         IF schedVars' # schedVars
           THEN status[s].state \in {"done", "error"}
           ELSE \E p \in Procs : wslot[p] = s /\ pc[p] = "boot" /\ pc'[p] # "boot"]_vars


NoTaskOverwritten ==
  [][(call = "par" /\ spc = "write" /\ spc' # "write") =>
       ~HasKey(activeKeys, workerId)]_vars


\* C24: the worker deletes only the task it executed.  When process_task
\* removes task.json after a run, the file, if it is there, is the task whose
\* id and prompt the worker read and executed.
DeletesOwnTask ==
  [][\A p \in Procs :
       (pc[p] = "rm_task" /\ pc'[p] = "release" /\ task[wslot[p]].id # 0) =>
         task[wslot[p]] = [id |-> task_id[p], prompt |-> prompt[p]]]_vars


\* C25: outcome attribution.  When executeTasks or executeSequential records
\* an outcome for a slot, the slot's status is the done or error written for
\* the task assigned to it, and result.json is there and carries that task's
\* id.
OutcomeAttributed ==
  [][(spc \in {"poll", "seq_wait"} /\ spc' \in {"reset", "seq_reset"}) =>
       /\ status[workerId'].taskId = activeInfo[workerId'].taskId
       /\ result[workerId'].present
       /\ result[workerId'].taskId = StrOf(activeInfo[workerId'].taskId)
       /\ results'[Len(results')].taskId = activeInfo[workerId'].taskId
       /\ results'[Len(results')].task = CurTask \/ call = "par"]_vars


\* C26: no uncollected result is destroyed.  A result.json that clearResult
\* removes before an assignment is the result of an outcome already recorded
\* for that slot.
ClearsOnlyCollected ==
  [][(spc = "clear" /\ spc' = "write" /\ result[workerId].present) =>
       \E i \in 1 .. Len(results) :
         /\ results[i].workerId = workerId
         /\ results[i].result = result[workerId]]_vars


\* C27: a release never removes somebody else's lease.  A release_lock of a
\* process, at the end of process_task or in the cleanup that runs when it
\* exits after a failed acquire_lock, does not remove a marker whose PID file
\* names a different process that is alive.
ReleaseOnlyOwn ==
  [][\A p \in Procs :
       (pc[p] \in {"release", "acqfail"} /\ pc'[p] \notin {pc[p], "dead"}
          /\ lock'[wslot[p]] # lock[wslot[p]]) =>
         ~(/\ lock[wslot[p]].state = "pid"
           /\ lock[wslot[p]].pid # p
           /\ Alive(lock[wslot[p]].pid))]_vars


\* C28: completion ordering in the worker.  process_task writes result.json,
\* then the done or error status, then deletes task.json, then releases the
\* marker; from the moment the worker starts on a task to the deletion of
\* task.json the marker that carries its PID stays in place.
CompletionOrder ==
  [][\A p \in Procs :
       LET s == wslot[p] IN
       /\ (pc[p] = "wr_result" /\ pc'[p] \notin {"wr_result", "dead", "exited"}) =>
            /\ pc'[p] = "wr_status"
            /\ result'[s].present /\ result'[s].taskId = StrOf(task_id[p])
       /\ (pc[p] = "wr_status" /\ pc'[p] \notin {"wr_status", "dead", "exited"}) =>
            /\ pc'[p] = "rm_task"
            /\ status'[s].state \in {"done", "error"} /\ status'[s].taskId = task_id[p]
       /\ (pc[p] = "rm_task" /\ pc'[p] \notin {"rm_task", "dead"}) =>
            /\ pc'[p] = "release"
            /\ task'[s] = NoTask
       /\ (pc[p] \in WorkSteps \cup {"rm_task"} /\ pc'[p] # "exited"
             /\ lock[s] = [state |-> "pid", pid |-> p]) =>
            lock'[s] = lock[s]]_vars


\* the result of the task named by the status of slot s is in an outcome
Collected(s) ==
  \E i \in 1 .. Len(results) :
    /\ results[i].workerId = s
    /\ results[i].result.present
    /\ results[i].result.taskId = StrOf(status[s].taskId)

\* C29: a terminal status implies its result.  While a slot's status is done
\* or error for task t and the orchestrator has not collected the result of
\* t, result.json is in the slot and carries the id t.
TerminalHasResult ==
  \A s \in ActiveSlots :
    (Terminal(s) /\ ~Collected(s)) =>
      /\ result[s].present
      /\ result[s].taskId = StrOf(status[s].taskId)


\* some live process made the marker of slot s and has not released it
LiveHolder(s) ==
  \E q \in Procs :
    /\ Alive(q) /\ wslot[q] = s
    /\ pc[q] \in Holding \cup {"mkpid_open", "mkpid_write"}

\* C30: every crashed holder is reclaimable.  An acquire_lock gives up only
\* on a marker that a live process holds: a marker left by a process that
\* died, before or after it wrote its PID into it, is reclaimed and the
\* acquire succeeds.
DeadHolderReclaimed ==
  [][\A p \in Procs :
       (pc[p] \in {"acq", "acq_again"} /\ pc'[p] = "acqfail") =>
         LiveHolder(wslot[p])]_vars


\* the wait before the k-th retry as the bounded backoff has it: 1, 2, 4, 4, 4
CappedWait(k) == CASE k = 1 -> 1 [] k = 2 -> 2 [] OTHER -> 4

\* C31: bounded retry.  Against a marker held by a live process, the k-th
\* failed attempt of acquire_lock sleeps CappedWait(k) seconds (1, 2, 4, 4, 4),
\* and acquire_lock returns failure after exactly the fifth one.
BoundedRetry ==
  [][\A p \in Procs :
       (pc[p] \in {"acq", "acq_again"} /\ retries'[p] = retries[p] - 1
          /\ LiveHolder(wslot[p])) =>
         /\ retries[p] \in 1 .. RetryBudget
         /\ wait[p] = CappedWait(RetryBudget - retries[p] + 1)
         /\ (pc'[p] = "acqfail") <=> (retries[p] = 1)
         /\ pc'[p] \in {"acq", "acqfail"}]_vars


\* a task with a prompt lies in slot s under id i and the worker of the slot
\* has not already reported it (it is not between the final status and the rm
\* of line 147)
Waiting(s, i) ==
  /\ task[s].id = i
  /\ task[s].prompt # 0
  /\ ~\E p \in Procs : wslot[p] = s /\ pc[p] = "rm_task" /\ task_id[p] = i

\* C32: task pickup liveness.  With the worker of the slot running and every
\* run of the agent ending, a task with a prompt that is written into a slot
\* is eventually executed: the slot's status becomes done or error with that
\* task's id, whichever of inotifywait, fswatch and polling the worker uses.
TaskPickedUp ==
  \A s \in Slots : \A i \in 1 .. MaxTasks :
    Waiting(s, i) ~> (Terminal(s) /\ status[s].taskId = i)

\* C33: parallel dispatch terminates.  With a running worker in every slot
\* and every run of the agent ending, executeTasks reaches the state where the
\* pending queue and the in-flight set are both empty, and returns.
ParallelReturns ==
  <>(spc \in {"returned", "shut"} /\ taskQueue = <<>> /\ activeKeys = <<>>)

\* the id under which writeTask wrote the task with prompt q: ids are handed
\* out from 1 in the order of the list, and prompt q is that of entry q
IdOfPrompt(q) == q

\* C34: result and status reflect the agent's exit.  The result.json written
\* after a run has success true exactly when the run's exit status was zero,
\* the status written after it is done exactly when success is true and error
\* otherwise, and both carry the id of the task whose prompt was run.
ExitReflected ==
  [][\A p \in Procs :
       /\ (pc[p] = "wr_result" /\ pc'[p] = "wr_status") =>
            /\ result'[wslot[p]].present
            /\ result'[wslot[p]].success = success[p]
            /\ result'[wslot[p]].taskId = StrOf(IdOfPrompt(prompt[p]))
       /\ (pc[p] = "wr_status" /\ pc'[p] = "rm_task") =>
            /\ status'[wslot[p]].state = (IF success[p] THEN "done" ELSE "error")
            /\ status'[wslot[p]].taskId = IdOfPrompt(prompt[p])]_vars

NoCrash == \A p \in Procs : pc[p] # "dead"

\* C36: working implies leased.  As long as no worker has been killed, a
\* slot whose status is working has its marker, the marker names the slot's
\* running worker, and that worker is between its acquire_lock and its
\* release_lock.
WorkingLeased ==
  NoCrash =>
    \A s \in ActiveSlots :
      status[s].state = "working" =>
        /\ lock[s].state = "pid"
        /\ Alive(lock[s].pid)
        /\ wslot[lock[s].pid] = s
        /\ pc[lock[s].pid] \in Holding

\* task i of slot s has been passed to the agent: a process has run it and
\* not yet let go of it, or result.json carries its id
Executed(s, i, P) ==
  \/ \E q \in P : /\ wslot[q] = s /\ task_id[q] = i
                   /\ pc[q] \in {"wr_result", "wr_status", "rm_task", "release"}
  \/ result[s].present /\ result[s].taskId = StrOf(i)

\* C37: at-most-once execution.  With no worker process killed, a task that
\* a worker passes to the agent has not been passed to the agent before, by
\* this worker on an earlier notification or poll tick or by another one.
ExecutedOnce ==
  [][\A p \in Procs :
       (NoCrash /\ pc[p] = "exec" /\ pc'[p] = "wr_result") =>
         ~Executed(wslot[p], task_id[p], Procs \ {p})]_vars

\* C38: shutdown effect and frame.  Every turn of shutdown's loop writes idle
\* to its slot, whatever the status was, and leaves every other status, every
\* task.json, result.json and marker as it was; no worker process is started
\* or ended by it (a worker blocked in inotifywait on the slot is woken by the
\* write, nothing more); the loop ends after the slot numWorkers - 1.
ShutdownFrame ==
  [][((spc = "returned" /\ spc' # "returned") \/ shutIdx' # shutIdx) =>
       /\ status' = [status EXCEPT ![shutIdx] = IdleStatus]
       /\ shutIdx \in ActiveSlots
       /\ shutIdx' = shutIdx + 1
       /\ (spc' = "shut") <=> (shutIdx' = numWorkers)
       /\ task' = task /\ result' = result /\ lock' = lock
       /\ \A p \in Procs :
            /\ Alive(p)' = Alive(p)
            /\ pc'[p] # pc[p] => (pc[p] = "waiting" /\ pc'[p] = "check")
       /\ UNCHANGED <<wslot, task_id, prompt, success, errors, results>>]_vars

\* shutdown has written idle to a slot whose worker is in the middle of a run
ShutdownOverWorking ==
  /\ spc = "shut"
  /\ \E p \in Procs :
       /\ pc[p] \in {"exec", "wr_result", "wr_status"}
       /\ status[wslot[p]] = IdleStatus
       /\ lock[wslot[p]] = [state |-> "pid", pid |-> p]

\* C39: launcher pane layout.  When launch.sh has made its session and has
\* ended, the window has n + 1 panes, every worker i has had its start command
\* sent to pane i + 1, and the last command sent is the start of the
\* orchestrator, in pane 0.
LauncherLayout ==
  (launch.lpc \in {"started", "exited"} /\ launch.panes > 0) =>
    /\ launch.panes = launch.n + 1
    /\ \A i \in 0 .. launch.n - 1 :
         \E j \in 1 .. Len(launch.keys) :
           launch.keys[j] = Key(i + 1, "worker", i)
    /\ launch.keys # <<>>
    /\ launch.keys[Len(launch.keys)] = Key(0, "orchestrator", launch.n)

====
